---------------------------- MODULE Spec2Model ----------------------------
(***************************************************************************)
(* The payment lifecycle of the subscription bot: the subscribers table    *)
(* (db.py), the per-user FSM context of the payment flow                   *)
(* (user_handlers.py, states.py), the admin decision handlers              *)
(* (admin_handlers.py), the routers as main.py registers them, and the     *)
(* expiry sweep (scheduler.py).                                            *)
(*                                                                         *)
(* Dates are day numbers.  A callback payload (a string in the code) is    *)
(* the sequence of its ":"-separated parts, each part a sequence of atoms, *)
(* so that packing and parsing are computed and not assumed.               *)
(* The username column and the selected_at stamp are left out: no handler  *)
(* reads them back in a condition.                                         *)
(*                                                                         *)
(* A record-store call may meet an sqlite3.Error, which db.py turns into   *)
(* its failure value.  A transport call may fail where the code's control  *)
(* flow depends on it (the receipt confirmation, the edit of the decision  *)
(* message, the expiry notification); the sends whose errors the code      *)
(* swallows are recorded as made.                                          *)
(***************************************************************************)
EXTENDS Integers, Sequences, FiniteSets, TLC

----------------------------------------------------------------------------
(* Bounds of the model *)

\* the identities 1..NumUsers, besides the admin
NumUsers == 2
\* the days 0..MaxDay
MaxDay == 2

(* Configuration (config.py reads these from the environment) *)

ADMIN_ID == 9
\* config.MONTHLY_DAYS is whatever integer the environment gives (default 30);
\* the model runs the configuration MONTHLY_DAYS=1, so that a term ends within
\* MaxDay, and SpecConfig every configuration accepted
MONTHLY_DAYS == 1
TARIFF_MONTHLY == 150
TARIFF_LIFETIME == 500
\* timedelta(days=365 * 10) of the approve branch
LIFETIME_DAYS == 3650
\* notify_user(bot, user_id, retries=3)
RETRIES == 3

Users == 1..NumUsers
\* the users who walk the payment flow; the other identities only send
\* decision payloads
FlowUsers == {1}
Callers == Users \cup {ADMIN_ID}

\* SQL NULL / Python None in a date column
NoDate == -1
\* SQL NULL / Python None in the subscription_type column, and a missing dict key
NoType == "NULL"

ALLOWED_STATUSES == {"active", "pending", "expired"}
ALLOWED_SUBSCRIPTION_TYPES == {"monthly", "lifetime"}

\* PaymentFlow states; NoState is the cleared context (state None)
NoState == "None"
waiting_tariff_selection == "waiting_tariff_selection"
waiting_payment_confirmation == "waiting_payment_confirmation"
waiting_receipt_upload == "waiting_receipt_upload"
PaymentFlow ==
    {waiting_tariff_selection, waiting_payment_confirmation, waiting_receipt_upload}

VARIABLES
    config,        \* the loaded configuration: config.MONTHLY_DAYS
    subscribers,   \* the subscribers table: user_id -> row, domain = the rows present
    fsmState,      \* FSM context state of each user
    fsmData,       \* FSM context data of each user: <<>> or <<payment_data>>
    today,         \* date.today()
    swPc,          \* the sweep's position: "sleep", "notify", "update"
    swQueue,       \* expired_subs still to process, the head being processed
    swSends,       \* send attempts notify_user made for the head
    swSent,        \* notify_user's return value for the head
    swRun,         \* history of the sweep in progress or just over (see NoRun)
    last           \* what the handler or step just run did; Idle between two runs

vars ==
    <<config, subscribers, fsmState, fsmData, today, swPc, swQueue, swSends, swSent, swRun, last>>
----------------------------------------------------------------------------
(* db.py *)

NewRow ==
    [status |-> "pending", subscription_type |-> NoType,
     start_date |-> NoDate, end_date |-> NoDate]

\* INSERT ...; IntegrityError when the key exists, sqlite3.Error when dbok is FALSE
create_subscriber(tbl, user_id, dbok) ==
    IF dbok /\ user_id \notin DOMAIN tbl
    THEN [tbl |-> tbl @@ (user_id :> NewRow), ok |-> TRUE]
    ELSE [tbl |-> tbl, ok |-> FALSE]

\* SELECT ... WHERE user_id = ?; None when absent or on sqlite3.Error
get_subscriber(tbl, user_id, dbok) ==
    IF dbok /\ user_id \in DOMAIN tbl
    THEN <<tbl[user_id]>>
    ELSE <<>>

\* update_subscriber_status that removes the row it is asked to expire
update_subscriber_status_removes(tbl, user_id, status, dbok) ==
    IF status \notin ALLOWED_STATUSES
    THEN [tbl |-> tbl, ok |-> FALSE]
    ELSE IF dbok /\ user_id \in DOMAIN tbl
         THEN [tbl |-> IF status = "expired"
                       THEN [u \in DOMAIN tbl \ {user_id} |-> tbl[u]]
                       ELSE [tbl EXCEPT ![user_id].status = status],
               ok |-> TRUE]
         ELSE [tbl |-> tbl, ok |-> FALSE]

update_subscriber_status(tbl, user_id, status, dbok) ==
    IF status \notin ALLOWED_STATUSES
    THEN [tbl |-> tbl, ok |-> FALSE]
    ELSE IF dbok /\ user_id \in DOMAIN tbl
         THEN [tbl |-> [tbl EXCEPT ![user_id].status = status], ok |-> TRUE]
         ELSE [tbl |-> tbl, ok |-> FALSE]

\* update_subscription_dates that inserts the row when the user has none
update_subscription_dates_upserts(tbl, user_id, start_date, end_date, subscription_type, dbok) ==
    IF subscription_type \notin ALLOWED_SUBSCRIPTION_TYPES \/ ~dbok
    THEN [tbl |-> tbl, ok |-> FALSE]
    ELSE [tbl |-> (user_id :> [status |-> IF user_id \in DOMAIN tbl
                                         THEN tbl[user_id].status ELSE "pending",
                               subscription_type |-> subscription_type,
                               start_date |-> start_date, end_date |-> end_date]) @@ tbl,
          ok |-> TRUE]

\* update_subscription_dates without its WHERE clause: every row is written
update_subscription_dates_all_rows(tbl, user_id, start_date, end_date, subscription_type, dbok) ==
    IF subscription_type \notin ALLOWED_SUBSCRIPTION_TYPES
    THEN [tbl |-> tbl, ok |-> FALSE]
    ELSE IF dbok /\ user_id \in DOMAIN tbl
         THEN [tbl |-> [u \in DOMAIN tbl |->
                           [tbl[u] EXCEPT !.start_date = start_date,
                                          !.end_date = end_date,
                                          !.subscription_type = subscription_type]],
               ok |-> TRUE]
         ELSE [tbl |-> tbl, ok |-> FALSE]

update_subscription_dates(tbl, user_id, start_date, end_date, subscription_type, dbok) ==
    IF subscription_type \notin ALLOWED_SUBSCRIPTION_TYPES
    THEN [tbl |-> tbl, ok |-> FALSE]
    ELSE IF dbok /\ user_id \in DOMAIN tbl
         THEN [tbl |-> [tbl EXCEPT ![user_id].start_date = start_date,
                                   ![user_id].end_date = end_date,
                                   ![user_id].subscription_type = subscription_type],
               ok |-> TRUE]
         ELSE [tbl |-> tbl, ok |-> FALSE]

\* ExpiredNow without the condition on the status
ExpiredNow_any_status(tbl, day) ==
    {u \in DOMAIN tbl : tbl[u].end_date # NoDate /\ tbl[u].end_date < day}

\* ExpiredNow with the rows that end today selected as well
ExpiredNow_through_today(tbl, day) ==
    {u \in DOMAIN tbl :
        /\ tbl[u].status = "active"
        /\ tbl[u].end_date # NoDate
        /\ tbl[u].end_date <= day}

\* WHERE status = 'active' AND end_date IS NOT NULL AND date(end_date) < date('now')
ExpiredNow(tbl, day) ==
    {u \in DOMAIN tbl :
        /\ tbl[u].status = "active"
        /\ tbl[u].end_date # NoDate
        /\ tbl[u].end_date < day}

\* ORDER BY end_date ASC: the orders of the selected rows the query may return
\* (rows with equal end_date come in an order SQL leaves open); [] on sqlite3.Error
list_expired_subscriptions(tbl, day, dbok) ==
    IF ~dbok THEN {<<>>}
    ELSE LET S == ExpiredNow(tbl, day)
         IN {q \in [1..Cardinality(S) -> S] :
                /\ \A i, j \in 1..Cardinality(S) : i # j => q[i] # q[j]
                /\ \A i, j \in 1..Cardinality(S) :
                       i < j => tbl[q[i]].end_date <= tbl[q[j]].end_date}

delete_subscriber(tbl, user_id, dbok) ==
    IF dbok /\ user_id \in DOMAIN tbl
    THEN [tbl |-> [u \in DOMAIN tbl \ {user_id} |-> tbl[u]], ok |-> TRUE]
    ELSE [tbl |-> tbl, ok |-> FALSE]

----------------------------------------------------------------------------
(* data_models.py: callback payloads *)

\* decimal rendering of a user id and its parse (ids of the model have one digit)
Digits == <<"1", "2", "3", "4", "5", "6", "7", "8", "9">>
IntStr(n) == Digits[n]
IsInt(part) == Len(part) = 1 /\ \E n \in DOMAIN Digits : Digits[n] = part[1]
ParseInt(part) == CHOOSE n \in DOMAIN Digits : Digits[n] = part[1]

\* CallbackData.pack: the prefix and the fields joined by ":"
TariffCallback_pack(type) == << <<"tariff">>, <<type>> >>
PaymentConfirmationCallback_pack(action) == << <<"payment">>, <<action>> >>
AdminApprovalCallback_pack(action, user_id) ==
    << <<"admin">>, <<action>>, <<IntStr(user_id)>> >>

\* CallbackData.filter(): split on ":", the prefix and the number of fields must
\* match and every field must validate (Literal membership, int parse)
TariffCallback_filter(data) ==
    /\ Len(data) = 2
    /\ data[1] = <<"tariff">>
    /\ data[2] \in {<<"monthly">>, <<"lifetime">>}

PaymentConfirmationCallback_filter(data) ==
    /\ Len(data) = 2
    /\ data[1] = <<"payment">>
    /\ data[2] \in {<<"confirm">>, <<"cancel">>}

AdminApprovalCallback_filter(data) ==
    /\ Len(data) = 3
    /\ data[1] = <<"admin">>
    /\ data[2] \in {<<"approve">>, <<"decline">>}
    /\ IsInt(data[3])

\* AdminApprovalCallback_unpack that reads every payload as an approve
AdminApprovalCallback_unpack_approves(data) ==
    [action |-> "approve", user_id |-> ParseInt(data[3])]

\* CallbackData.unpack of a payload the filter accepted
AdminApprovalCallback_unpack(data) ==
    [action |-> data[2][1], user_id |-> ParseInt(data[3])]

BUY_ACCESS_CALLBACK == << <<"buy_access">> >>
MY_SUBSCRIPTION_CALLBACK == << <<"my_subscription">> >>
RECEIPT_UPLOAD_CALLBACK == << <<"receipt_upload">> >>
CANCEL_PAYMENT_CALLBACK == << <<"cancel_payment">> >>

\* the legacy payloads "approve_<id>" and "decline_<id>": one part, the tag then the rest
LegacyPayload(tag, rest) == << <<tag>> \o rest >>
\* F.data.startswith(tag)
StartsWith(data, tag) == Len(data) >= 1 /\ Len(data[1]) >= 1 /\ data[1][1] = tag
\* data.replace(tag, ""): the atoms of the string without the tag
RECURSIVE StripTag(_, _)
StripTag(part, tag) ==
    IF part = <<>> THEN <<>>
    ELSE IF Head(part) = tag THEN StripTag(Tail(part), tag)
         ELSE <<Head(part)>> \o StripTag(Tail(part), tag)
\* int(user_id_str) succeeds: no ":" in the string and what is left is a number
LegacyParses(data, tag) == Len(data) = 1 /\ IsInt(StripTag(data[1], tag))
LegacyUserId(data, tag) == ParseInt(StripTag(data[1], tag))

\* the payloads the model sends
UserPayloads ==
    {BUY_ACCESS_CALLBACK, MY_SUBSCRIPTION_CALLBACK, CANCEL_PAYMENT_CALLBACK,
     RECEIPT_UPLOAD_CALLBACK,
     TariffCallback_pack("monthly"), TariffCallback_pack("lifetime"),
     PaymentConfirmationCallback_pack("confirm"),
     PaymentConfirmationCallback_pack("cancel")}

AdminPayloads ==
    {AdminApprovalCallback_pack(a, u) : a \in {"approve", "decline"}, u \in Users}
    \cup {LegacyPayload(t, <<IntStr(u)>>) : t \in {"approve_", "decline_"}, u \in Users}
    \cup {LegacyPayload("approve_", <<"x">>), LegacyPayload("decline_", <<>>)}

Payloads == UserPayloads \cup AdminPayloads

\* the kinds of message a user sends
MessageKinds ==
    {"/start", "/help", "/mysubscription", "photo", "document_image",
     "document_other", "text"}

----------------------------------------------------------------------------
(* The routers: the handler a router runs for an event is the first one, in
   registration order, whose filters pass; UNHANDLED when none does *)

UNHANDLED == "UNHANDLED"

\* user_router.message handlers, in the order of user_handlers.py
user_router_message(state, kind) ==
    IF kind = "/start" THEN "cmd_start"
    ELSE IF kind = "/help" THEN "cmd_help"
    ELSE IF kind = "/mysubscription" THEN "cmd_mysubscription"
    ELSE IF state = waiting_receipt_upload /\ kind = "photo" THEN "handle_receipt_photo"
    ELSE IF state = waiting_receipt_upload /\ kind \in {"document_image", "document_other"}
         THEN "handle_receipt_document"
    ELSE IF state = waiting_receipt_upload THEN "handle_invalid_receipt_input"
    ELSE "handle_unknown_message"

\* user_router_callback with the handlers of the flow registered without a state
user_router_callback_any_state(state, data) ==
    IF data = BUY_ACCESS_CALLBACK THEN "cb_buy_access"
    ELSE IF TariffCallback_filter(data) THEN "cb_tariff_selected"
    ELSE IF PaymentConfirmationCallback_filter(data) THEN "cb_payment_confirmed"
    ELSE IF data = MY_SUBSCRIPTION_CALLBACK THEN "cb_my_subscription"
    ELSE IF data = CANCEL_PAYMENT_CALLBACK THEN "cb_cancel_payment"
    ELSE "handle_unknown_callback"

\* user_router.callback_query handlers, in the order of user_handlers.py
user_router_callback(state, data) ==
    IF data = BUY_ACCESS_CALLBACK THEN "cb_buy_access"
    ELSE IF TariffCallback_filter(data) /\ state = waiting_tariff_selection
         THEN "cb_tariff_selected"
    ELSE IF PaymentConfirmationCallback_filter(data) /\ state = waiting_payment_confirmation
         THEN "cb_payment_confirmed"
    ELSE IF data = MY_SUBSCRIPTION_CALLBACK THEN "cb_my_subscription"
    ELSE IF data = CANCEL_PAYMENT_CALLBACK THEN "cb_cancel_payment"
    ELSE "handle_unknown_callback"

\* admin_router.callback_query handlers, in the order of admin_handlers.py
admin_router_callback(data) ==
    IF AdminApprovalCallback_filter(data) THEN "handle_admin_action"
    ELSE IF StartsWith(data, "approve_") THEN "handle_legacy_approve_callback"
    ELSE IF StartsWith(data, "decline_") THEN "handle_legacy_decline_callback"
    ELSE "handle_non_admin_callback"

\* Dispatcher with register_handlers' routers: include_router(user_router), then
\* include_router(admin_router); a sub-router is asked only when the ones before
\* it left the event unhandled
register_handlers == <<"user_router", "admin_router">>

RouterCallback(router, state, data) ==
    IF router = "user_router" THEN user_router_callback(state, data)
    ELSE admin_router_callback(data)

RECURSIVE propagate_event(_, _, _)
propagate_event(routers, state, data) ==
    IF routers = <<>> THEN UNHANDLED
    ELSE LET response == RouterCallback(Head(routers), state, data)
         IN IF response # UNHANDLED THEN response
            ELSE propagate_event(Tail(routers), state, data)

dispatcher_callback(state, data) == propagate_event(register_handlers, state, data)

----------------------------------------------------------------------------
(* The record of a step *)

\* a transport call: the chat it goes to, what it says, whether it went through
Msg(to, kind, ok) == [to |-> to, kind |-> kind, ok |-> ok]

\* a record-store write and what it returned
DbCall(fn, ok) == [fn |-> fn, ok |-> ok]

\* h the handler or step, from the sender, target the user a decision or a sweep
\* step is about, data the callback payload, db the record-store writes made,
\* sent the transport calls made, alert the callback answer, raised whether an
\* exception left the handler
Did(h, from, target, data, db, sent, alert, raised) ==
    [h |-> h, from |-> from, target |-> target, data |-> data, db |-> db,
     sent |-> sent, alert |-> alert, raised |-> raised]

Idle == Did("idle", 0, 0, <<>>, <<>>, <<>>, "", FALSE)

\* What is remembered of a run of check_expired_subscriptions: selected the
\* rows its query returned, log the notify_user calls and status writes it made
\* so far, done whether it ran to its end, clean whether since its query no
\* record-store call failed, no day passed and no handler ran, after the log of
\* the run before it, <<log>>, when that run was done and clean and nothing
\* happened between the two, <<>> otherwise.  The history is kept (on) only in
\* the specifications that start with it.
NoRun ==
    [on |-> TRUE, selected |-> <<>>, log |-> <<>>, done |-> FALSE, clean |-> FALSE,
     after |-> <<>>]

Untracked == [NoRun EXCEPT !.on = FALSE]

Tracked(run) == IF swRun.on THEN run ELSE swRun

LogEntry(user_id, step, ok) == [user_id |-> user_id, step |-> step, ok |-> ok]

\* the history after something other than the sweep happened
Disturbed ==
    Tracked(IF swPc \in {"notify", "update"}
            THEN [swRun EXCEPT !.clean = FALSE, !.after = <<>>]
            ELSE NoRun)

Init ==
    /\ config = [MONTHLY_DAYS |-> MONTHLY_DAYS]
    /\ subscribers = <<>>
    /\ fsmState = [u \in Users |-> NoState]
    /\ fsmData = [u \in Users |-> <<>>]
    /\ today = 0
    /\ swPc = "sleep"
    /\ swQueue = <<>>
    /\ swSends = 0
    /\ swSent = FALSE
    /\ swRun = Untracked
    /\ last = Idle

SweepVars == <<swPc, swQueue, swSends, swSent>>

\* What a handler run leaves: the table, the FSM contexts and the record of the run
Handled(tbl, st, dat, did) ==
    /\ subscribers' = tbl
    /\ fsmState' = st
    /\ fsmData' = dat
    /\ last' = did
    /\ swRun' = Disturbed
    /\ UNCHANGED <<config, today, SweepVars>>

\* FSMContext of a sender
StateOf(u) == IF u \in Users THEN fsmState[u] ELSE NoState
DataOf(u) == IF u \in Users THEN fsmData[u] ELSE <<>>
set_state(u, v) == IF u \in Users THEN [fsmState EXCEPT ![u] = v] ELSE fsmState
update_data(u, v) == IF u \in Users THEN [fsmData EXCEPT ![u] = <<v>>] ELSE fsmData
clear_data(u) == IF u \in Users THEN [fsmData EXCEPT ![u] = <<>>] ELSE fsmData

\* the environment of one handler run: e.db[i] says whether the i-th record-store
\* call meets no sqlite3.Error, e.tx whether the transport call the handler's
\* control flow depends on goes through
Env == [db : [1..3 -> BOOLEAN], tx : BOOLEAN]
Envs(ndb, ntx) ==
    {e \in Env : /\ \A i \in 1..3 : i > ndb => e.db[i]
                 /\ ntx = 0 => e.tx}

----------------------------------------------------------------------------
(* user_handlers.py *)

\* cmd_start that writes a fresh row over the sender's record
cmd_start_resets(u, e) ==
    Handled((u :> NewRow) @@ subscribers, set_state(u, NoState), clear_data(u),
            Did("cmd_start", u, 0, <<>>, <<DbCall("create_subscriber", TRUE)>>,
                <<Msg(u, "welcome", TRUE)>>, "", FALSE))

cmd_start(u, e) ==
    LET subscriber == get_subscriber(subscribers, u, e.db[1])
        r == IF subscriber = <<>>
             THEN create_subscriber(subscribers, u, e.db[2])
             ELSE [tbl |-> subscribers, ok |-> FALSE]
        db == IF subscriber = <<>> THEN <<DbCall("create_subscriber", r.ok)>> ELSE <<>>
    IN Handled(r.tbl, set_state(u, NoState), clear_data(u),
               Did("cmd_start", u, 0, <<>>, db, <<Msg(u, "welcome", TRUE)>>, "", FALSE))

cmd_help(u, e) ==
    Handled(subscribers, fsmState, fsmData,
            Did("cmd_help", u, 0, <<>>, <<>>, <<Msg(u, "help", TRUE)>>, "", FALSE))

cmd_mysubscription(u, e) ==
    Handled(subscribers, fsmState, fsmData,
            Did("cmd_mysubscription", u, 0, <<>>, <<>>,
                <<Msg(u, "subscription_status", TRUE)>>, "", FALSE))

cb_buy_access(u, data, e) ==
    Handled(subscribers, set_state(u, waiting_tariff_selection), fsmData,
            Did("cb_buy_access", u, 0, data, <<>>,
                <<Msg(u, "tariff_selection", TRUE)>>, "answered", FALSE))

\* cb_tariff_selected with the selected plan written to the record at once
cb_tariff_selected_persists(u, data, e) ==
    LET selected_tariff == data[2][1]
        price == IF selected_tariff = "monthly" THEN TARIFF_MONTHLY ELSE TARIFF_LIFETIME
        payment_data == [tariff |-> selected_tariff, price |-> price]
        r == update_subscription_dates(subscribers, u, NoDate, NoDate, selected_tariff, TRUE)
    IN Handled(r.tbl, set_state(u, waiting_payment_confirmation),
               update_data(u, payment_data),
               Did("cb_tariff_selected", u, 0, data,
                   <<DbCall("update_subscription_dates", r.ok)>>,
                   <<Msg(u, "payment_details", TRUE)>>, "answered", FALSE))

cb_tariff_selected(u, data, e) ==
    LET selected_tariff == data[2][1]
        price == IF selected_tariff = "monthly" THEN TARIFF_MONTHLY ELSE TARIFF_LIFETIME
        payment_data == [tariff |-> selected_tariff, price |-> price]
    IN Handled(subscribers, set_state(u, waiting_payment_confirmation),
               update_data(u, payment_data),
               Did("cb_tariff_selected", u, 0, data, <<>>,
                   <<Msg(u, "payment_details", TRUE)>>, "answered", FALSE))

cb_payment_confirmed(u, data, e) ==
    IF data[2][1] = "cancel"
    THEN Handled(subscribers, set_state(u, NoState), clear_data(u),
                 Did("cb_payment_confirmed", u, 0, data, <<>>,
                     <<Msg(u, "payment_cancelled", TRUE)>>, "Payment cancelled", FALSE))
    ELSE Handled(subscribers, set_state(u, waiting_receipt_upload), fsmData,
                 Did("cb_payment_confirmed", u, 0, data, <<>>,
                     <<Msg(u, "upload_receipt", TRUE)>>,
                     "Please upload your payment receipt", FALSE))

\* payment_data.get("tariff"): None when the context holds no payment_data
TariffOf(dat) == IF dat = <<>> THEN NoType ELSE dat[1].tariff

\* ReceiptWrites with the monthly term given to every plan
ReceiptWrites_fixed_term(u, e) ==
    LET tariff == TariffOf(DataOf(u))
        r1 == update_subscriber_status(subscribers, u, "pending", e.db[1])
        r2 == update_subscription_dates(r1.tbl, u, today, today + config.MONTHLY_DAYS,
                  IF tariff = NoType THEN "monthly" ELSE tariff, e.db[2])
    IN [tbl |-> r2.tbl,
        db |-> <<DbCall("update_subscriber_status", r1.ok),
                 DbCall("update_subscription_dates", r2.ok)>>]

\* the record-store part shared by the two receipt handlers: the status to
\* pending, then the dates and the type, whatever the first call returned
ReceiptWrites(u, e) ==
    LET tariff == TariffOf(DataOf(u))
        r1 == update_subscriber_status(subscribers, u, "pending", e.db[1])
        end_date == IF tariff = "monthly" THEN today + config.MONTHLY_DAYS ELSE NoDate
        r2 == update_subscription_dates(r1.tbl, u, today, end_date,
                  IF tariff = NoType THEN "monthly" ELSE tariff, e.db[2])
    IN [tbl |-> r2.tbl,
        db |-> <<DbCall("update_subscriber_status", r1.ok),
                 DbCall("update_subscription_dates", r2.ok)>>]

\* the callback data of the two buttons send_admin_payment_notification puts
\* under the receipt of user_id
DecisionButtons(user_id) ==
    [approve |-> AdminApprovalCallback_pack("approve", user_id),
     decline |-> AdminApprovalCallback_pack("decline", user_id)]

\* send_admin_payment_notification: send_photo to the admin with the two
\* decision buttons, every error swallowed
send_admin_payment_notification(u) == Msg(ADMIN_ID, "decision_request", TRUE)

\* the sends of handle_receipt_photo after the writes: the confirmation to the
\* user, then the decision request; an error of the confirmation lands in the
\* except branch, which answers the error text and sends nothing to the admin
ReceiptPhotoSends(u, e) ==
    IF e.tx
    THEN <<Msg(u, "receipt_received", TRUE), send_admin_payment_notification(u)>>
    ELSE <<Msg(u, "receipt_received", FALSE), Msg(u, "receipt_error", TRUE)>>

handle_receipt_photo(u, e) ==
    LET w == ReceiptWrites(u, e)
    IN Handled(w.tbl, set_state(u, NoState), clear_data(u),
               Did("handle_receipt_photo", u, u, <<>>, w.db, ReceiptPhotoSends(u, e),
                   "", FALSE))

\* the sends of the image branch of handle_receipt_document: there is no try
\* block, an error of the confirmation leaves the handler
ReceiptDocumentSends(u, e) ==
    IF e.tx
    THEN <<Msg(u, "receipt_received", TRUE), send_admin_payment_notification(u)>>
    ELSE <<Msg(u, "receipt_received", FALSE)>>

handle_receipt_document(u, kind, e) ==
    IF kind = "document_image"
    THEN LET w == ReceiptWrites(u, e)
         IN Handled(w.tbl, set_state(u, NoState), clear_data(u),
                    Did("handle_receipt_document", u, u, <<>>, w.db,
                        ReceiptDocumentSends(u, e), "", ~e.tx))
    ELSE Handled(subscribers, fsmState, fsmData,
                 Did("handle_receipt_document", u, 0, <<>>, <<>>,
                     <<Msg(u, "invalid_file_type", TRUE)>>, "", FALSE))

cb_my_subscription(u, data, e) ==
    Handled(subscribers, fsmState, fsmData,
            Did("cb_my_subscription", u, 0, data, <<>>,
                <<Msg(u, "subscription_status", TRUE)>>, "Status refreshed", FALSE))

cb_cancel_payment(u, data, e) ==
    Handled(subscribers, set_state(u, NoState), clear_data(u),
            Did("cb_cancel_payment", u, 0, data, <<>>,
                <<Msg(u, "payment_cancelled", TRUE)>>, "Payment cancelled", FALSE))

handle_invalid_receipt_input(u, e) ==
    Handled(subscribers, fsmState, fsmData,
            Did("handle_invalid_receipt_input", u, 0, <<>>, <<>>,
                <<Msg(u, "invalid_input", TRUE)>>, "", FALSE))

handle_unknown_message(u, e) ==
    Handled(subscribers, fsmState, fsmData,
            Did("handle_unknown_message", u, 0, <<>>, <<>>,
                <<Msg(u, "unknown_command", TRUE)>>, "", FALSE))

handle_unknown_callback(u, data, e) ==
    Handled(subscribers, fsmState, fsmData,
            Did("handle_unknown_callback", u, 0, data, <<>>,
                <<Msg(u, "something_went_wrong", TRUE)>>, "Unknown action", FALSE))

----------------------------------------------------------------------------
(* admin_handlers.py *)

\* AdminFilter.__call__: the check of the caller against config.ADMIN_ID; no
\* handler of admin_router is registered with it
AdminFilter(user_id) == [is_admin |-> user_id = ADMIN_ID, user_id |-> user_id]

\* str.title() of the stored type raises AttributeError on None
HasTitle(subscription_type) == subscription_type # NoType

\* send_admin_confirmation: the text is built inside the try block, so that
\* None.title() is swallowed and nothing is sent
send_admin_confirmation(action, user_data) ==
    IF HasTitle(user_data.subscription_type)
    THEN <<Msg(ADMIN_ID, "admin_confirmation_" \o action, TRUE)>>
    ELSE <<>>

\* send_user_subscription_confirmation / send_user_payment_declined
send_user_decision(action, user_id) ==
    Msg(user_id, IF action = "approve" THEN "payment_approved" ELSE "payment_declined",
        TRUE)

\* the end date the approve branch computes
ApproveEndDate(subscription_type, start_date) ==
    IF subscription_type = "lifetime"
    THEN start_date + LIFETIME_DAYS
    ELSE start_date + config.MONTHLY_DAYS

\* the record-store writes of a decision on an existing record: the status, and
\* for approve the dates, whose result is not looked at
DecisionWrites(action, target_user_id, row, e) ==
    LET r1 == update_subscriber_status(subscribers, target_user_id,
                  IF action = "approve" THEN "active" ELSE "expired", e.db[2])
        start_date == today
        r2 == update_subscription_dates(r1.tbl, target_user_id, start_date,
                  ApproveEndDate(row.subscription_type, start_date),
                  row.subscription_type, e.db[3])
    IN IF ~r1.ok
       THEN [tbl |-> r1.tbl, ok |-> FALSE,
             db |-> <<DbCall("update_subscriber_status", FALSE)>>]
       ELSE IF action = "approve"
            THEN [tbl |-> r2.tbl, ok |-> TRUE,
                  db |-> <<DbCall("update_subscriber_status", TRUE),
                           DbCall("update_subscription_dates", r2.ok)>>]
            ELSE [tbl |-> r1.tbl, ok |-> TRUE,
                  db |-> <<DbCall("update_subscriber_status", TRUE)>>]

\* what follows the writes: the notification to the user, the confirmation to
\* the admin, the edit of the decision message (whose text takes .title() of the
\* stored type outside any inner try) and the callback answer
DecisionSends(caller, action, target_user_id, row, e) ==
    LET edited == HasTitle(row.subscription_type) /\ e.tx
    IN [sent |-> <<send_user_decision(action, target_user_id)>>
                 \o send_admin_confirmation(action, row)
                 \o (IF HasTitle(row.subscription_type)
                     THEN <<Msg(caller, "edit_" \o action, e.tx)>> ELSE <<>>),
        alert |-> IF edited THEN "Payment " \o action \o " and user notified"
                  ELSE "Error processing " \o action]

\* AdminAction without the `if not user_data` return: a missing record is
\* taken for a fresh one
AdminAction_unchecked(caller, callback_data, e) ==
    LET target_user_id == callback_data.user_id
        action == callback_data.action
        user_data == get_subscriber(subscribers, target_user_id, e.db[1])
        row == IF user_data = <<>> THEN NewRow ELSE user_data[1]
        w == DecisionWrites(action, target_user_id, row, e)
        s == DecisionSends(caller, action, target_user_id, row, e)
    IN IF ~w.ok
       THEN [tbl |-> w.tbl, db |-> w.db, sent |-> <<>>,
             alert |-> "Failed to update user status"]
       ELSE [tbl |-> w.tbl, db |-> w.db, sent |-> s.sent, alert |-> s.alert]

\* handle_admin_action for a caller and the unpacked callback_data
AdminAction(caller, callback_data, e) ==
    LET target_user_id == callback_data.user_id
        action == callback_data.action
        user_data == get_subscriber(subscribers, target_user_id, e.db[1])
    IN IF user_data = <<>>
       THEN [tbl |-> subscribers, db |-> <<>>, sent |-> <<>>,
             alert |-> "User not found in database"]
       ELSE LET w == DecisionWrites(action, target_user_id, user_data[1], e)
                s == DecisionSends(caller, action, target_user_id, user_data[1], e)
            IN IF ~w.ok
               THEN [tbl |-> w.tbl, db |-> w.db, sent |-> <<>>,
                     alert |-> "Failed to update user status"]
               ELSE [tbl |-> w.tbl, db |-> w.db, sent |-> s.sent, alert |-> s.alert]

handle_admin_action(caller, data, e) ==
    LET callback_data == AdminApprovalCallback_unpack(data)
        r == AdminAction(caller, callback_data, e)
    IN Handled(r.tbl, fsmState, fsmData,
               Did("handle_admin_action", caller, callback_data.user_id, data,
                   r.db, r.sent, r.alert, FALSE))

\* LegacyCallback that makes the writes of the decision and sends nothing
LegacyCallback_silent(h, tag, action, caller, data, e) ==
    IF LegacyParses(data, tag)
    THEN LET user_id == LegacyUserId(data, tag)
             r == AdminAction(caller, [action |-> action, user_id |-> user_id], e)
         IN Handled(r.tbl, fsmState, fsmData,
                    Did(h, caller, user_id, data, r.db, <<>>, r.alert, FALSE))
    ELSE Handled(subscribers, fsmState, fsmData,
                 Did(h, caller, 0, data, <<>>, <<>>, "Invalid callback data", FALSE))

\* the two legacy handlers: strip the tag, int(), then handle_admin_action
LegacyCallback(h, tag, action, caller, data, e) ==
    IF LegacyParses(data, tag)
    THEN LET user_id == LegacyUserId(data, tag)
             r == AdminAction(caller, [action |-> action, user_id |-> user_id], e)
         IN Handled(r.tbl, fsmState, fsmData,
                    Did(h, caller, user_id, data, r.db, r.sent, r.alert, FALSE))
    ELSE Handled(subscribers, fsmState, fsmData,
                 Did(h, caller, 0, data, <<>>, <<>>, "Invalid callback data", FALSE))

handle_legacy_approve_callback(caller, data, e) ==
    LegacyCallback("handle_legacy_approve_callback", "approve_", "approve", caller, data, e)

handle_legacy_decline_callback(caller, data, e) ==
    LegacyCallback("handle_legacy_decline_callback", "decline_", "decline", caller, data, e)

handle_non_admin_message(u, e) ==
    Handled(subscribers, fsmState, fsmData,
            Did("handle_non_admin_message", u, 0, <<>>, <<>>,
                <<Msg(u, "access_denied", TRUE)>>, "", FALSE))

handle_non_admin_callback(caller, data, e) ==
    Handled(subscribers, fsmState, fsmData,
            Did("handle_non_admin_callback", caller, 0, data, <<>>, <<>>,
                "Access denied", FALSE))

----------------------------------------------------------------------------
(* scheduler.py *)

TransportOutcomes == {"ok", "retry_after", "permanent", "transient", "unexpected"}

\* the delay a TelegramRetryAfter carries (e.retry_after): the transport's choice
RETRY_AFTER == 5

\* a sleep of notify_user: why it sleeps, after which send, for how long
Wait(why, after, secs) == [why |-> why, after |-> after, secs |-> secs]

\* NotifyLoop with a permanent failure retried like a transient one
RECURSIVE NotifyLoop_retries_permanent(_, _, _, _)
NotifyLoop_retries_permanent(outcomes, attempt, sends, waits) ==
    IF attempt >= RETRIES
    THEN [sent |-> FALSE, sends |-> sends, waits |-> waits]
    ELSE LET o == outcomes[attempt + 1]
         IN CASE o = "ok" -> [sent |-> TRUE, sends |-> sends + 1, waits |-> waits]
              [] o = "retry_after" ->
                    NotifyLoop_retries_permanent(outcomes, attempt + 1, sends + 1,
                               Append(waits, Wait("retry_after", sends + 1, RETRY_AFTER)))
              [] o \in {"permanent", "transient"} ->
                    NotifyLoop_retries_permanent(outcomes, attempt + 1, sends + 1,
                               IF attempt < RETRIES - 1
                               THEN Append(waits, Wait("backoff", sends + 1,
                                                       2 * (attempt + 1)))
                               ELSE waits)
              [] OTHER -> [sent |-> FALSE, sends |-> sends + 1, waits |-> waits]

\* NotifyLoop with the back-off sleep made after the last attempt too
RECURSIVE NotifyLoop_waits_after_last(_, _, _, _)
NotifyLoop_waits_after_last(outcomes, attempt, sends, waits) ==
    IF attempt >= RETRIES
    THEN [sent |-> FALSE, sends |-> sends, waits |-> waits]
    ELSE LET o == outcomes[attempt + 1]
         IN CASE o = "ok" -> [sent |-> TRUE, sends |-> sends + 1, waits |-> waits]
              [] o = "retry_after" ->
                    NotifyLoop_waits_after_last(outcomes, attempt + 1, sends + 1,
                               Append(waits, Wait("retry_after", sends + 1, RETRY_AFTER)))
              [] o = "permanent" ->
                    [sent |-> FALSE, sends |-> sends + 1, waits |-> waits]
              [] o = "transient" ->
                    NotifyLoop_waits_after_last(outcomes, attempt + 1, sends + 1,
                               Append(waits, Wait("backoff", sends + 1, 2 * (attempt + 1))))
              [] OTHER -> [sent |-> FALSE, sends |-> sends + 1, waits |-> waits]

\* NotifyLoop with a rate-limited send not counted as an attempt
RECURSIVE NotifyLoop_uncounted_rate_limit(_, _, _, _)
NotifyLoop_uncounted_rate_limit(outcomes, attempt, sends, waits) ==
    IF attempt >= RETRIES \/ sends >= Len(outcomes)
    THEN [sent |-> FALSE, sends |-> sends, waits |-> waits]
    ELSE LET o == outcomes[sends + 1]
         IN CASE o = "ok" -> [sent |-> TRUE, sends |-> sends + 1, waits |-> waits]
              [] o = "retry_after" ->
                    NotifyLoop_uncounted_rate_limit(outcomes, attempt, sends + 1,
                               Append(waits, Wait("retry_after", sends + 1, RETRY_AFTER)))
              [] o = "permanent" ->
                    [sent |-> FALSE, sends |-> sends + 1, waits |-> waits]
              [] o = "transient" ->
                    NotifyLoop_uncounted_rate_limit(outcomes, attempt + 1, sends + 1,
                               IF attempt < RETRIES - 1
                               THEN Append(waits, Wait("backoff", sends + 1,
                                                       2 * (attempt + 1)))
                               ELSE waits)
              [] OTHER -> [sent |-> FALSE, sends |-> sends + 1, waits |-> waits]

\* notify_user's loop `for attempt in range(retries)` against the outcomes of
\* the successive sends: [sent, sends, waits], the return value, the sends made
\* and the sleeps made
RECURSIVE NotifyLoop(_, _, _, _)
NotifyLoop(outcomes, attempt, sends, waits) ==
    IF attempt >= RETRIES
    THEN [sent |-> FALSE, sends |-> sends, waits |-> waits]
    ELSE LET o == outcomes[attempt + 1]
         IN CASE o = "ok" -> [sent |-> TRUE, sends |-> sends + 1, waits |-> waits]
              [] o = "retry_after" ->
                    NotifyLoop(outcomes, attempt + 1, sends + 1,
                               Append(waits, Wait("retry_after", sends + 1, RETRY_AFTER)))
              [] o = "permanent" ->
                    [sent |-> FALSE, sends |-> sends + 1, waits |-> waits]
              [] o = "transient" ->
                    NotifyLoop(outcomes, attempt + 1, sends + 1,
                               IF attempt < RETRIES - 1
                               THEN Append(waits, Wait("backoff", sends + 1,
                                                       2 * (attempt + 1)))
                               ELSE waits)
              [] OTHER -> [sent |-> FALSE, sends |-> sends + 1, waits |-> waits]

notify_user(outcomes) == NotifyLoop(outcomes, 0, 0, <<>>)

SweepDid(h, target, db, sent) == Did(h, 0, target, <<>>, db, sent, "", FALSE)

\* the record of a notify_user call with result r: data the responses the
\* transport gave to its sends, sent the sends, waits its sleeps
NotifyDid(user_id, outcomes, r) ==
    [h |-> "notify_user", from |-> 0, target |-> user_id,
     data |-> [i \in 1..r.sends |-> <<outcomes[i]>>], db |-> <<>>,
     sent |-> [i \in 1..r.sends |->
                  Msg(user_id, "subscription_expired", outcomes[i] = "ok")],
     alert |-> "", raised |-> FALSE, waits |-> r.waits]

\* check_expired_subscriptions up to the first notify_user: the query
SweepStart(dbok) ==
    /\ swPc = "sleep"
    /\ \E q \in list_expired_subscriptions(subscribers, today, dbok) :
          /\ swQueue' = q
          /\ swPc' = IF q = <<>> THEN "sleep" ELSE "notify"
          /\ swRun' = Tracked([on |-> TRUE, selected |-> q, log |-> <<>>,
                               done |-> q = <<>>, clean |-> dbok,
                               after |-> IF swRun.done /\ swRun.clean
                                         THEN <<swRun.log>> ELSE <<>>])
    /\ swSends' = 0
    /\ swSent' = FALSE
    /\ last' = SweepDid("check_expired_subscriptions", 0, <<>>, <<>>)
    /\ UNCHANGED <<config, subscribers, fsmState, fsmData, today>>

\* step 2 of the loop body: notify_user for the head of the queue
SweepNotify(outcomes) ==
    /\ swPc = "notify"
    /\ LET r == notify_user(outcomes)
       IN /\ swSends' = r.sends
          /\ swSent' = r.sent
          /\ last' = NotifyDid(Head(swQueue), outcomes, r)
          /\ swRun' = Tracked([swRun EXCEPT
                         !.log = Append(@, LogEntry(Head(swQueue), "notify", r.sent))])
    /\ swPc' = "update"
    /\ UNCHANGED <<config, subscribers, fsmState, fsmData, today, swQueue>>

\* SweepUpdate with the status write made only after a delivered notification
SweepUpdate_if_sent(dbok) ==
    /\ swPc = "update"
    /\ LET r == IF swSent
                THEN update_subscriber_status(subscribers, Head(swQueue), "expired", dbok)
                ELSE [tbl |-> subscribers, ok |-> FALSE]
       IN /\ subscribers' = r.tbl
          /\ last' = SweepDid("update_expired", Head(swQueue),
                              IF swSent THEN <<DbCall("update_subscriber_status", r.ok)>>
                              ELSE <<>>, <<>>)
          /\ swRun' = Tracked([swRun EXCEPT
                         !.log = IF swSent
                                 THEN Append(@, LogEntry(Head(swQueue), "write", r.ok))
                                 ELSE @,
                         !.done = Tail(swQueue) = <<>>])
    /\ swQueue' = Tail(swQueue)
    /\ swPc' = IF Tail(swQueue) = <<>> THEN "sleep" ELSE "notify"
    /\ swSends' = 0
    /\ UNCHANGED <<config, fsmState, fsmData, today, swSent>>

\* SweepUpdate with the loop left at the first status write that fails
SweepUpdate_stops_on_failure(dbok) ==
    /\ swPc = "update"
    /\ LET r == update_subscriber_status(subscribers, Head(swQueue), "expired", dbok)
           rest == IF r.ok THEN Tail(swQueue) ELSE <<>>
       IN /\ subscribers' = r.tbl
          /\ last' = SweepDid("update_expired", Head(swQueue),
                              <<DbCall("update_subscriber_status", r.ok)>>, <<>>)
          /\ swRun' = Tracked([swRun EXCEPT
                         !.log = Append(@, LogEntry(Head(swQueue), "write", r.ok)),
                         !.clean = @ /\ r.ok,
                         !.done = rest = <<>>])
          /\ swQueue' = rest
          /\ swPc' = IF rest = <<>> THEN "sleep" ELSE "notify"
    /\ swSends' = 0
    /\ UNCHANGED <<config, fsmState, fsmData, today, swSent>>

\* step 3 of the loop body: the status write, then the next selected record
SweepUpdate(dbok) ==
    /\ swPc = "update"
    /\ LET r == update_subscriber_status(subscribers, Head(swQueue), "expired", dbok)
       IN /\ subscribers' = r.tbl
          /\ last' = SweepDid("update_expired", Head(swQueue),
                              <<DbCall("update_subscriber_status", r.ok)>>, <<>>)
          /\ swRun' = Tracked([swRun EXCEPT
                         !.log = Append(@, LogEntry(Head(swQueue), "write", r.ok)),
                         !.clean = @ /\ r.ok,
                         !.done = Tail(swQueue) = <<>>])
    /\ swQueue' = Tail(swQueue)
    /\ swPc' = IF Tail(swQueue) = <<>> THEN "sleep" ELSE "notify"
    /\ swSends' = 0
    /\ UNCHANGED <<config, fsmState, fsmData, today, swSent>>

----------------------------------------------------------------------------
(* The events *)

\* no handler or step is being recorded: the next event can be taken
Ready == last = Idle

\* the event loop can run a handler: the scheduler task sleeps or is suspended
\* in notify_user; between notify_user's return and the status write of the
\* same record the task awaits nothing
Yielded == Ready /\ swPc # "update"

\* the run just recorded is over
Return ==
    /\ ~Ready
    /\ last' = Idle
    /\ UNCHANGED <<config, subscribers, fsmState, fsmData, today, SweepVars, swRun>>

\* the calendar day changes
Tick ==
    /\ Ready
    /\ today < MaxDay
    /\ today' = today + 1
    /\ last' = Did("tick", 0, 0, <<>>, <<>>, <<>>, "", FALSE)
    /\ swRun' = Disturbed
    /\ UNCHANGED <<config, subscribers, fsmState, fsmData, SweepVars>>

\* the number of record-store calls a handler can make, and whether it makes a
\* transport call its control flow depends on
NDb(h) ==
    CASE h \in {"cmd_start", "handle_receipt_photo", "handle_receipt_document"} -> 2
      [] h \in {"handle_admin_action", "handle_legacy_approve_callback",
                "handle_legacy_decline_callback"} -> 3
      [] OTHER -> 0

NTx(h) ==
    CASE h \in {"handle_receipt_photo", "handle_receipt_document",
                "handle_admin_action", "handle_legacy_approve_callback",
                "handle_legacy_decline_callback"} -> 1
      [] OTHER -> 0

\* the handler h run on a message of kind `kind` from u
RunMessage(h, u, kind, e) ==
    CASE h = "cmd_start" -> cmd_start(u, e)
      [] h = "cmd_help" -> cmd_help(u, e)
      [] h = "cmd_mysubscription" -> cmd_mysubscription(u, e)
      [] h = "handle_receipt_photo" -> handle_receipt_photo(u, e)
      [] h = "handle_receipt_document" -> handle_receipt_document(u, kind, e)
      [] h = "handle_invalid_receipt_input" -> handle_invalid_receipt_input(u, e)
      [] h = "handle_unknown_message" -> handle_unknown_message(u, e)
      [] h = "handle_non_admin_message" -> handle_non_admin_message(u, e)

\* the handler h run on a callback query with payload data from u
RunCallback(h, u, data, e) ==
    CASE h = "cb_buy_access" -> cb_buy_access(u, data, e)
      [] h = "cb_tariff_selected" -> cb_tariff_selected(u, data, e)
      [] h = "cb_payment_confirmed" -> cb_payment_confirmed(u, data, e)
      [] h = "cb_my_subscription" -> cb_my_subscription(u, data, e)
      [] h = "cb_cancel_payment" -> cb_cancel_payment(u, data, e)
      [] h = "handle_unknown_callback" -> handle_unknown_callback(u, data, e)
      [] h = "handle_admin_action" -> handle_admin_action(u, data, e)
      [] h = "handle_legacy_approve_callback" -> handle_legacy_approve_callback(u, data, e)
      [] h = "handle_legacy_decline_callback" -> handle_legacy_decline_callback(u, data, e)
      [] h = "handle_non_admin_callback" -> handle_non_admin_callback(u, data, e)

\* a message reaches user_router
UserMessage ==
    /\ Yielded
    /\ \E u \in FlowUsers, kind \in MessageKinds :
          LET h == user_router_message(fsmState[u], kind)
          IN \E e \in Envs(NDb(h), NTx(h)) : RunMessage(h, u, kind, e)

\* a callback query reaches user_router
UserCallback ==
    /\ Yielded
    /\ \E u \in FlowUsers, data \in Payloads :
          LET h == user_router_callback(fsmState[u], data)
          IN \E e \in Envs(NDb(h), NTx(h)) : RunCallback(h, u, data, e)

\* a callback query reaches admin_router
AdminCallback ==
    /\ Yielded
    /\ \E caller \in Callers, data \in Payloads :
          LET h == admin_router_callback(data)
          IN \E e \in Envs(NDb(h), NTx(h)) : RunCallback(h, caller, data, e)

\* a message reaches admin_router
AdminMessage ==
    /\ Yielded
    /\ \E u \in FlowUsers : \E e \in Envs(0, 0) : handle_non_admin_message(u, e)

Sweep ==
    /\ Ready
    /\ \/ \E dbok \in BOOLEAN : SweepStart(dbok)
       \/ \E outcomes \in [1..RETRIES -> TransportOutcomes] : SweepNotify(outcomes)
       \/ \E dbok \in BOOLEAN : SweepUpdate(dbok)

\* The handlers, each run on the events its own router selects it for
Next ==
    \/ Tick
    \/ UserMessage
    \/ UserCallback
    \/ AdminCallback
    \/ AdminMessage
    \/ Sweep
    \/ Return

Spec == Init /\ [][Next]_vars

\* the payloads an identity sends: a user of the flow any, the others decisions
SendsOf(caller) == IF caller \in FlowUsers THEN Payloads ELSE AdminPayloads

\* a callback query reaches the Dispatcher that main.py builds
DispatchCallback ==
    /\ Yielded
    /\ \E caller \in Callers : \E data \in SendsOf(caller) :
          LET h == dispatcher_callback(StateOf(caller), data)
          IN \E e \in Envs(NDb(h), NTx(h)) : RunCallback(h, caller, data, e)

\* The bot as main.py wires it: every update goes through the Dispatcher, where
\* user_router's message handlers take every message
NextMain ==
    \/ Tick
    \/ UserMessage
    \/ DispatchCallback
    \/ Sweep
    \/ Return

SpecMain == Init /\ [][NextMain]_vars

----------------------------------------------------------------------------
(* The bot of main.py under every configuration config.py accepts *)

\* values of the environment variable MONTHLY_DAYS, as their characters
MonthlyDaysEnv == {<<"1">>, <<"2">>, <<"0">>, <<"-", "1">>, <<"x">>, <<>>}

\* int(MONTHLY_DAYS) of config.py: ok is FALSE where int() raises ValueError
\* and the process exits
ConfigInt(text) ==
    IF text = <<"0">> THEN [ok |-> TRUE, value |-> 0]
    ELSE IF IsInt(text) THEN [ok |-> TRUE, value |-> ParseInt(text)]
    ELSE IF Len(text) = 2 /\ text[1] = "-" /\ IsInt(Tail(text))
         THEN [ok |-> TRUE, value |-> 0 - ParseInt(Tail(text))]
    ELSE [ok |-> FALSE, value |-> 0]

InitConfig ==
    /\ \E text \in MonthlyDaysEnv :
          /\ ConfigInt(text).ok
          /\ config = [MONTHLY_DAYS |-> ConfigInt(text).value]
    /\ subscribers = <<>>
    /\ fsmState = [u \in Users |-> NoState]
    /\ fsmData = [u \in Users |-> <<>>]
    /\ today = 0
    /\ swPc = "sleep"
    /\ swQueue = <<>>
    /\ swSends = 0
    /\ swSent = FALSE
    /\ swRun = Untracked
    /\ last = Idle

SpecConfig == InitConfig /\ [][NextMain]_vars

----------------------------------------------------------------------------
(* The scheduler task alone, over the tables the handlers can leave *)

\* a row as the approve branch leaves it on day d, and later a decline or a sweep
ApprovedRow(status, subscription_type, d) ==
    [status |-> status, subscription_type |-> subscription_type,
     start_date |-> d, end_date |-> ApproveEndDate(subscription_type, d)]

\* rows present on a given day: one just created, monthly ones approved on an
\* earlier or the same day, a lifetime one, one already expired
SweepRows(day) ==
    {NewRow, ApprovedRow("active", "lifetime", 0), ApprovedRow("expired", "monthly", 0)}
        \cup {ApprovedRow("active", "monthly", d) : d \in 0..day}

SweepTables(day) ==
    UNION {[S -> SweepRows(day)] : S \in SUBSET Users}

InitSweep ==
    /\ config = [MONTHLY_DAYS |-> MONTHLY_DAYS]
    /\ today \in 0..MaxDay
    /\ subscribers \in SweepTables(today)
    /\ fsmState = [u \in Users |-> NoState]
    /\ fsmData = [u \in Users |-> <<>>]
    /\ swPc = "sleep"
    /\ swQueue = <<>>
    /\ swSends = 0
    /\ swSent = FALSE
    /\ swRun = NoRun
    /\ last = Idle

\* scheduler_loop's `except Exception`, for an exception that leaves
\* check_expired_subscriptions from inside its loop: the rest of the run is
\* dropped and the task sleeps the cool-down
SweepRaise ==
    /\ Ready
    /\ swPc \in {"notify", "update"}
    /\ swPc' = "cooldown"
    /\ swQueue' = <<>>
    /\ swSends' = 0
    /\ swRun' = Tracked([swRun EXCEPT !.clean = FALSE])
    /\ last' = SweepDid("scheduler_error", 0, <<>>, <<>>)
    /\ UNCHANGED <<config, subscribers, fsmState, fsmData, today, swSent>>

\* CoolDown with the loop left on an error
CoolDown_stops ==
    /\ Ready
    /\ swPc = "cooldown"
    /\ swPc' = "stopped"
    /\ last' = SweepDid("cooldown", 0, <<>>, <<>>)
    /\ UNCHANGED <<config, subscribers, fsmState, fsmData, today, swQueue, swSends, swSent, swRun>>

\* asyncio.sleep(60) of the except branch is over: the loop computes the next run
CoolDown ==
    /\ Ready
    /\ swPc = "cooldown"
    /\ swPc' = "sleep"
    /\ last' = SweepDid("cooldown", 0, <<>>, <<>>)
    /\ UNCHANGED <<config, subscribers, fsmState, fsmData, today, swQueue, swSends, swSent, swRun>>

\* shutdown_hooks cancels the task: CancelledError is raised at the await the
\* task is suspended in (the loop's sleep, the cool-down, or inside notify_user,
\* whose `except Exception` does not catch it), and scheduler_loop breaks; there
\* is no await between notify_user's return and the status write
Cancel ==
    /\ Ready
    /\ swPc \in {"sleep", "notify", "cooldown"}
    /\ swPc' = "cancelled"
    /\ last' = SweepDid("cancel", 0, <<>>, <<>>)
    /\ UNCHANGED <<config, subscribers, fsmState, fsmData, today, swQueue, swSends, swSent, swRun>>

NextSweep ==
    \/ Tick
    \/ Sweep
    \/ SweepRaise
    \/ CoolDown
    \/ Cancel
    \/ Return

\* the task is scheduled as long as the event loop runs
SpecSweep ==
    /\ InitSweep
    /\ [][NextSweep]_vars
    /\ WF_vars(Sweep)
    /\ WF_vars(CoolDown)
    /\ WF_vars(Return)

----------------------------------------------------------------------------
(* The record store alone: one call of a db.py function on a table *)

\* the record of a call of the db.py function fn for user_id: ok its boolean
\* result (for get_subscriber, whether a row came back), got the row returned,
\* dbok whether the call met no sqlite3.Error
StoreDid(fn, user_id, ok, got, dbok) ==
    [h |-> fn, from |-> 0, target |-> user_id, data |-> <<>>,
     db |-> <<DbCall(fn, ok)>>, sent |-> <<>>, alert |-> "", raised |-> FALSE,
     got |-> got, dbok |-> dbok]

InitStore ==
    /\ config = [MONTHLY_DAYS |-> MONTHLY_DAYS]
    /\ today \in 0..MaxDay
    /\ subscribers \in SweepTables(today)
    /\ fsmState = [u \in Users |-> NoState]
    /\ fsmData = [u \in Users |-> <<>>]
    /\ swPc = "sleep"
    /\ swQueue = <<>>
    /\ swSends = 0
    /\ swSent = FALSE
    /\ swRun = Untracked
    /\ last = Idle

\* what a call leaves: the table and the record of the call; the callers below
\* pass statuses and types allowed or not
Stored(tbl, did) ==
    /\ Ready
    /\ subscribers' = tbl
    /\ last' = did
    /\ UNCHANGED <<config, fsmState, fsmData, today, SweepVars, swRun>>

StoreGet ==
    \E u \in Users, dbok \in BOOLEAN :
        LET got == get_subscriber(subscribers, u, dbok)
        IN Stored(subscribers, StoreDid("get_subscriber", u, got # <<>>, got, dbok))

StoreCreate ==
    \E u \in Users, dbok \in BOOLEAN :
        LET r == create_subscriber(subscribers, u, dbok)
        IN Stored(r.tbl, StoreDid("create_subscriber", u, r.ok, <<>>, dbok))

StoreUpdateStatus ==
    \E u \in Users, status \in ALLOWED_STATUSES \cup {"cancelled"}, dbok \in BOOLEAN :
        LET r == update_subscriber_status(subscribers, u, status, dbok)
        IN Stored(r.tbl, StoreDid("update_subscriber_status", u, r.ok, <<>>, dbok))

StoreUpdateDates ==
    \E u \in Users, type \in ALLOWED_SUBSCRIPTION_TYPES \cup {NoType},
       end_date \in {NoDate, today + config.MONTHLY_DAYS}, dbok \in BOOLEAN :
        LET r == update_subscription_dates(subscribers, u, today, end_date, type, dbok)
        IN Stored(r.tbl, StoreDid("update_subscription_dates", u, r.ok, <<>>, dbok))

StoreDelete ==
    \E u \in Users, dbok \in BOOLEAN :
        LET r == delete_subscriber(subscribers, u, dbok)
        IN Stored(r.tbl, StoreDid("delete_subscriber", u, r.ok, <<>>, dbok))

NextStore ==
    \/ StoreGet
    \/ StoreCreate
    \/ StoreUpdateStatus
    \/ StoreUpdateDates
    \/ StoreDelete

SpecStore == InitStore /\ [][NextStore]_vars

----------------------------------------------------------------------------
(* Vocabulary of the properties *)

DecisionHandlers ==
    {"handle_admin_action", "handle_legacy_approve_callback",
     "handle_legacy_decline_callback"}

\* d records a run of the approve/decline operation on the user d.target
DecisionRun(d) == d.h \in DecisionHandlers /\ d.target # 0

\* the action of a decision run
ActionOf(d) ==
    IF d.h = "handle_admin_action" THEN AdminApprovalCallback_unpack(d.data).action
    ELSE IF d.h = "handle_legacy_approve_callback" THEN "approve" ELSE "decline"

SentTo(d, to, kind) ==
    \E i \in DOMAIN d.sent : d.sent[i].to = to /\ d.sent[i].kind = kind

\* the run sent its target the approval or the decline notification
Notified(d) ==
    SentTo(d, d.target, "payment_approved") \/ SentTo(d, d.target, "payment_declined")

AllWritesOk(d) == \A i \in DOMAIN d.db : d.db[i].ok

\* d records a receipt handler run that accepted the attachment
ReceiptAccepted(d) ==
    d.h \in {"handle_receipt_photo", "handle_receipt_document"} /\ d.target # 0

\* the forward steps of the flow
Forward(a, b) ==
    <<a, b>> \in {<<NoState, waiting_tariff_selection>>,
                  <<waiting_tariff_selection, waiting_payment_confirmation>>,
                  <<waiting_payment_confirmation, waiting_receipt_upload>>,
                  <<waiting_receipt_upload, NoState>>}

----------------------------------------------------------------------------
(* The properties *)

\* C1: an approve or decline run (structured or legacy payload) whose sender is
\* not the configured admin leaves the table unchanged and sends the target
\* neither the approval nor the decline notification.
C1_NonAdminDecisionInert ==
    [][(DecisionRun(last') /\ last'.from # ADMIN_ID)
         => (subscribers' = subscribers /\ ~Notified(last'))]_vars

\* C2: after an approve whose status write went through, on a record that has a
\* plan, the record is active, its end_date is NULL exactly when the plan is
\* lifetime, and a monthly record ends MONTHLY_DAYS after its start_date.
C2_ApprovedDates ==
    (/\ DecisionRun(last)
     /\ ActionOf(last) = "approve"
     /\ last.db # <<>>
     /\ last.db[1].ok
     /\ subscribers[last.target].subscription_type \in ALLOWED_SUBSCRIPTION_TYPES)
    => LET r == subscribers[last.target]
       IN /\ r.status = "active"
          /\ (r.end_date = NoDate) <=> (r.subscription_type = "lifetime")
          /\ r.subscription_type = "monthly"
                => r.end_date = r.start_date + MONTHLY_DAYS

\* C3: every record whose status is active has a start_date.
C3_ActiveHasStart ==
    \A u \in DOMAIN subscribers :
        subscribers[u].status = "active" => subscribers[u].start_date # NoDate

\* C4: a user's conversation state changes only by a forward step of
\* idle -> waiting_tariff_selection -> waiting_payment_confirmation ->
\* waiting_receipt_upload -> idle, or from a non-idle state to idle.
C4_StateMonotone ==
    [][\A u \in Users :
          fsmState'[u] # fsmState[u]
            => \/ Forward(fsmState[u], fsmState'[u])
               \/ (fsmState[u] # NoState /\ fsmState'[u] = NoState)]_vars

\* C5: under main.py's registration, when the admin presses the approve button
\* for a user whose record holds a submitted plan, handle_admin_action runs, and
\* if its status write goes through the record is active and the user is sent
\* the access link.
C5_AdminApproveRuns ==
    [][\A u \in Users :
          (/\ last'.from = ADMIN_ID
           /\ last'.data = AdminApprovalCallback_pack("approve", u)
           /\ u \in DOMAIN subscribers
           /\ subscribers[u].subscription_type # NoType)
          => /\ last'.h = "handle_admin_action"
             /\ (last'.db # <<>> /\ last'.db[1].ok)
                  => /\ subscribers'[u].status = "active"
                     /\ SentTo(last', u, "payment_approved")]_vars

\* C6: a photo, or a document with an image MIME type, in waiting_receipt_upload
\* is taken by the receipt handler; the run starts in waiting_receipt_upload
\* with a chosen plan p, ends with the sender's state idle and data cleared,
\* and, its two writes having gone through, leaves the sender's record pending,
\* of plan p, starting today, ending today + MONTHLY_DAYS for monthly and with
\* no end_date for lifetime.
C6_ReceiptRecord ==
    [][/\ user_router_message(waiting_receipt_upload, "photo") = "handle_receipt_photo"
       /\ user_router_message(waiting_receipt_upload, "document_image")
             = "handle_receipt_document"
       /\ ReceiptAccepted(last')
            => LET u == last'.from
                   p == TariffOf(fsmData[u])
               IN /\ fsmState[u] = waiting_receipt_upload
                  /\ p \in ALLOWED_SUBSCRIPTION_TYPES
                  /\ fsmState'[u] = NoState
                  /\ fsmData'[u] = <<>>
                  /\ Len(last'.db) = 2
                  /\ AllWritesOk(last')
                       => /\ u \in DOMAIN subscribers'
                          /\ subscribers'[u] =
                               [status |-> "pending", subscription_type |-> p,
                                start_date |-> today,
                                end_date |-> IF p = "monthly"
                                             THEN today + MONTHLY_DAYS ELSE NoDate]]_vars

\* an image document accepted for a lifetime plan, on a later day than the
\* record's creation
C6_Witness ==
    /\ last.h = "handle_receipt_document"
    /\ last.target = 1
    /\ AllWritesOk(last)
    /\ today > 0
    /\ 1 \in DOMAIN subscribers
    /\ subscribers[1] = [status |-> "pending", subscription_type |-> "lifetime",
                         start_date |-> today, end_date |-> NoDate]
    /\ fsmState[1] = NoState

\* C7: no receipt handler run that wrote the record ends with the sender's
\* state idle, the sender's record pending and no decision request sent to the
\* admin.
C7_ReceiptHandsOff ==
    ~(/\ ReceiptAccepted(last)
      /\ AllWritesOk(last)
      /\ fsmState[last.from] = NoState
      /\ last.from \in DOMAIN subscribers
      /\ subscribers[last.from].status = "pending"
      /\ ~SentTo(last, ADMIN_ID, "decision_request"))

\* C8: a decision run on a record that has a plan, one of whose writes failed,
\* sends nothing to the target and answers the admin with an error.
C8_WriteFailureAborts ==
    (/\ DecisionRun(last)
     /\ ~AllWritesOk(last)
     /\ last.target \in DOMAIN subscribers
     /\ subscribers[last.target].subscription_type \in ALLOWED_SUBSCRIPTION_TYPES)
    => /\ ~Notified(last)
       /\ last.alert \in {"Failed to update user status", "Error processing approve",
                          "Error processing decline"}

\* C9: a decision run whose target has no record leaves the table as it was,
\* makes no write, sends nothing (no notification, no admin confirmation) and
\* answers with the not-found alert.
C9_NotFound ==
    [][(DecisionRun(last') /\ last'.target \notin DOMAIN subscribers)
         => /\ subscribers' = subscribers
            /\ last'.db = <<>>
            /\ last'.sent = <<>>
            /\ last'.alert = "User not found in database"]_vars

\* the admin declines a user without a record while another user has one
C9_Witness ==
    /\ last.h = "handle_admin_action"
    /\ last.from = ADMIN_ID
    /\ last.target = 2
    /\ ActionOf(last) = "decline"
    /\ 1 \in DOMAIN subscribers
    /\ 2 \notin DOMAIN subscribers
    /\ last.alert = "User not found in database"

\* C10: the sweep comes to the status write of a selected record only from
\* notify_user's call for that record, with at least one send attempted; a
\* selected record leaves the queue only by the status write to expired, made
\* whatever notify_user returned, after which (the write having gone through)
\* the record is expired.
C10_SweepNotifiesThenExpires ==
    [][/\ (swPc # "update" /\ swPc' = "update")
            => /\ swPc = "notify"
               /\ last'.h = "notify_user"
               /\ last'.target = Head(swQueue)
               /\ swQueue' = swQueue
               /\ swSends' >= 1
               /\ subscribers' = subscribers
       /\ (swQueue # <<>> /\ swQueue' # swQueue)
            => /\ swPc = "update"
               /\ swQueue' = Tail(swQueue)
               /\ last'.h = "update_expired"
               /\ last'.target = Head(swQueue)
               /\ Len(last'.db) = 1
               /\ last'.db[1].fn = "update_subscriber_status"
               /\ last'.db[1].ok => subscribers'[Head(swQueue)].status = "expired"]_vars

\* a record expired by the sweep after an undelivered notification
C10_Witness ==
    /\ last.h = "update_expired"
    /\ ~swSent
    /\ last.db[1].ok
    /\ subscribers[last.target].status = "expired"

\* C11: a run of the sweep that starts right after a run that ran to its end
\* (no record-store call of which failed), with no day passed and no handler
\* run since that run's query, selects nothing: it changes no record, makes no
\* write and sends nothing, whatever notify_user returned in the first run.
C11_SecondSweepInert ==
    [][(last'.h = "check_expired_subscriptions" /\ swRun'.after # <<>>)
         => /\ swRun'.selected = <<>>
            /\ swQueue' = <<>>
            /\ swPc' = "sleep"
            /\ subscribers' = subscribers
            /\ last'.db = <<>>
            /\ last'.sent = <<>>]_vars

\* a second run after a run that expired two records, one of them with an
\* undelivered notification
C11_Witness ==
    /\ last.h = "check_expired_subscriptions"
    /\ swRun.after # <<>>
    /\ Len(swRun.after[1]) = 4
    /\ \E i \in 1..4 : swRun.after[1][i].step = "notify" /\ ~swRun.after[1][i].ok
    /\ \E i \in 1..4 : swRun.after[1][i].step = "notify" /\ swRun.after[1][i].ok
    /\ swPc = "sleep"

\* the alerts that report an error of the decision to the admin
ErrorAlerts ==
    {"Failed to update user status", "Error processing approve",
     "Error processing decline", "User not found in database"}

\* d records an approve of a record that was `status` before, or, for decline,
\* a decline of such a record; tbl is the table before the run
DecisionOn(d, tbl, action, status) ==
    /\ DecisionRun(d)
    /\ ActionOf(d) = action
    /\ d.target \in DOMAIN tbl
    /\ tbl[d.target].status = status
    /\ d.db # <<>>
    /\ d.db[1].ok

\* C12: an approve of an already active record, and a decline of an already
\* expired one, whose status write and transport calls went through, leave the
\* status as it was and answer the admin with no error.
C12_RepeatedDecisionNoError ==
    [][((\/ DecisionOn(last', subscribers, "approve", "active")
         \/ DecisionOn(last', subscribers, "decline", "expired"))
        /\ \A i \in DOMAIN last'.sent : last'.sent[i].ok)
         => /\ subscribers'[last'.target].status = subscribers[last'.target].status
            /\ last'.alert \notin ErrorAlerts
            /\ ~last'.raised]_vars

\* C13: an approve of an already active record that has a plan, and a decline
\* of an already expired one, leave the whole record as it was.
C13_RepeatedDecisionIdempotent ==
    [][((\/ DecisionOn(last', subscribers, "approve", "active")
         \/ DecisionOn(last', subscribers, "decline", "expired"))
        /\ subscribers[last'.target].subscription_type \in ALLOWED_SUBSCRIPTION_TYPES)
         => subscribers'[last'.target] = subscribers[last'.target]]_vars

\* C14: an approve of a pending record that holds a submitted plan leaves its
\* start_date and subscription_type as the receipt handler wrote them.
C14_ApproveKeepsSubmissionDates ==
    [][(/\ DecisionOn(last', subscribers, "approve", "pending")
        /\ subscribers[last'.target].subscription_type \in ALLOWED_SUBSCRIPTION_TYPES)
         => /\ subscribers'[last'.target].start_date
                 = subscribers[last'.target].start_date
            /\ subscribers'[last'.target].subscription_type
                 = subscribers[last'.target].subscription_type]_vars

\* the responses the transport gave to the sends of the notify_user call d
Responses(d) == [i \in DOMAIN d.data |-> d.data[i][1]]

NotifyRun(d) == d.h = "notify_user"

\* C15: in a notify_user call, every rate-limited response is followed by a
\* sleep of the transport's delay and by a further send, and the call gives up
\* on transient failures only when RETRIES sends have failed transiently.
C15_RateLimitKeepsBudget ==
    NotifyRun(last)
      => LET resp == Responses(last)
         IN /\ \A i \in DOMAIN resp :
                  resp[i] = "retry_after"
                    => /\ i < Len(resp)
                       /\ \E k \in DOMAIN last.waits :
                             last.waits[k] = Wait("retry_after", i, RETRY_AFTER)
            /\ (~swSent /\ resp[Len(resp)] \in {"transient", "retry_after"})
                  => Cardinality({i \in DOMAIN resp : resp[i] = "transient"}) = RETRIES

\* C16: a permanent failure is the last response of its notify_user call: no
\* send and no sleep follows it, the call returns FALSE without raising and the
\* sweep goes on to the status write of that record; a record is notified at
\* most once in a run; and the status write that follows an undelivered
\* notification is made, leaving the record expired when it goes through.
C16_PermanentFailureStillExpires ==
    [][/\ NotifyRun(last')
            => /\ swPc = "notify"
               /\ \A i \in DOMAIN last'.data :
                     last'.data[i][1] = "permanent"
                       => /\ i = Len(last'.data)
                          /\ Len(last'.sent) = i
                          /\ \A k \in DOMAIN last'.waits : last'.waits[k].after < i
                          /\ ~swSent'
                          /\ ~last'.raised
                          /\ swPc' = "update"
                          /\ swQueue' = swQueue
               /\ \A i, j \in DOMAIN swRun'.log :
                     (/\ i < j
                      /\ swRun'.log[i].step = "notify"
                      /\ swRun'.log[j].step = "notify")
                       => swRun'.log[i].user_id # swRun'.log[j].user_id
       /\ (swPc = "update" /\ ~swSent /\ swPc' \in {"notify", "sleep"})
            => /\ last'.h = "update_expired"
               /\ last'.target = Head(swQueue)
               /\ Len(last'.db) = 1
               /\ last'.db[1].ok => subscribers'[Head(swQueue)].status = "expired"]_vars

\* the second send for the first of two selected records met a permanent failure
C16_Witness ==
    /\ NotifyRun(last)
    /\ Responses(last) = <<"transient", "permanent">>
    /\ Len(swRun.selected) = 2
    /\ last.target = swRun.selected[1]
    /\ swPc = "update"
    /\ ~swSent

\* C17: a notify_user call all of whose sends failed transiently made RETRIES
\* sends, slept 2 * k seconds after the k-th send for k < RETRIES and not after
\* the last, and returned FALSE without raising.
C17_TransientBackoff ==
    (NotifyRun(last) /\ \A i \in DOMAIN last.data : last.data[i][1] = "transient")
      => /\ Len(last.data) = RETRIES
         /\ Len(last.sent) = RETRIES
         /\ last.waits = [k \in 1..(RETRIES - 1) |-> Wait("backoff", k, 2 * k)]
         /\ ~swSent
         /\ ~last.raised
         /\ swPc = "update"

C17_Witness ==
    /\ NotifyRun(last)
    /\ Responses(last) = [i \in 1..RETRIES |-> "transient"]
    /\ Len(last.waits) = RETRIES - 1

\* the log of a run that made a notification attempt and then a status write
\* for each of the records sel, in order
FullLog(sel, log) ==
    /\ Len(log) = 2 * Len(sel)
    /\ \A k \in DOMAIN sel :
          /\ log[2 * k - 1].user_id = sel[k]
          /\ log[2 * k - 1].step = "notify"
          /\ log[2 * k].user_id = sel[k]
          /\ log[2 * k].step = "write"

\* the records of the run in progress that have had their status write
Written(run) == Len(run.log) \div 2

\* C18: while a sweep runs, the records still to be processed are exactly the
\* selected ones that have not had their status write, whatever the results of
\* the notifications and writes made so far; and a sweep that has completed
\* made a notification attempt and a status write for every selected record.
C18_EveryRecordProcessed ==
    /\ swPc \in {"notify", "update"}
         => /\ Written(swRun) + Len(swQueue) = Len(swRun.selected)
            /\ \A k \in DOMAIN swQueue :
                  swQueue[k] = swRun.selected[Written(swRun) + k]
    /\ swRun.done => FullLog(swRun.selected, swRun.log)

\* a completed sweep of two records whose first notification and first write failed
C18_Witness ==
    /\ swRun.done
    /\ Len(swRun.selected) = 2
    /\ Len(swRun.log) = 4
    /\ ~swRun.log[1].ok
    /\ ~swRun.log[2].ok
    /\ last.h = "update_expired"

\* C19: a cancellation of the task ends the loop, and when it arrives while
\* the task sleeps until its next run or is inside a sweep, the last sweep
\* processed either all or none of the records it selected.
C19_CancelNoPartialSweep ==
    [][(last'.h = "cancel" /\ swPc \in {"sleep", "notify", "update"})
          => /\ swPc' = "cancelled"
             /\ \/ swRun.log = <<>>
                \/ FullLog(swRun.selected, swRun.log)]_vars

\* C20: an error that leaves check_expired_subscriptions puts the loop in its
\* cool-down and not at its end, and unless the task is cancelled the loop then
\* starts another sweep.
C20_ErrorThenAnotherSweep ==
    /\ [][last'.h = "scheduler_error" => swPc' = "cooldown"]_vars
    /\ (swPc = "cooldown")
          ~> (swPc = "cancelled" \/ last.h = "check_expired_subscriptions")

\* the cool-down after an error that interrupted a sweep is over
C20_Witness ==
    /\ last.h = "cooldown"
    /\ swPc = "sleep"
    /\ swRun.selected # <<>>
    /\ ~swRun.done

\* the two payloads of the cancel buttons shown to a user
CancelPayloads == {CANCEL_PAYMENT_CALLBACK, PaymentConfirmationCallback_pack("cancel")}

\* C21: a callback query with a cancel payload (cancel_payment or payment:cancel),
\* sent by a user in whatever conversation state, leaves the sender's state
\* idle and the sender's data cleared, and changes no record.
C21_CancelFromEveryState ==
    [][(last'.from \in Users /\ last'.data \in CancelPayloads)
         => /\ fsmState'[last'.from] = NoState
            /\ fsmData'[last'.from] = <<>>
            /\ subscribers' = subscribers]_vars

\* the tag of the legacy payload of an action
LegacyTag(action) == action \o "_"

\* the handler admin_router runs for the legacy payload of an action
LegacyHandler(action) == "handle_legacy_" \o action \o "_callback"

\* the step that led to d left the table and the record d that the result r of
\* the decision operation describes
SameOutcome(d, tbl, r) ==
    /\ tbl = r.tbl
    /\ d.db = r.db
    /\ d.sent = r.sent
    /\ d.alert = r.alert

\* an environment in which a decision run on the table tbl meets what the record
\* d shows it met: a failed read when it reports a present record as not found,
\* the write results d lists, a failed edit when d has a failed transport call
EnvSeen(d, tbl) ==
    [db |-> [i \in 1..3 |->
                CASE i = 1 -> ~(d.alert = "User not found in database"
                                /\ d.target \in DOMAIN tbl)
                  [] OTHER -> Len(d.db) < i - 1 \/ d.db[i - 1].ok],
     tx |-> \A i \in DOMAIN d.sent : d.sent[i].ok]

\* C22: admin_router gives approve_<id> and decline_<id> to the legacy
\* handlers, and for every sender, user id and table a run on the legacy
\* payload leaves a table, writes, notifications and answer that a run of
\* handle_admin_action on admin:<action>:<id> from the same sender in the same
\* state leaves in the same environment, and the other way round.
C22_LegacyEquivalent ==
    [][last'.h \in DecisionHandlers =>
       LET a == ActionOf(last')
           u == last'.target
           legacy == LegacyPayload(LegacyTag(a), <<IntStr(u)>>)
           structured == AdminApprovalCallback_pack(a, u)
       IN /\ (\E v \in Users : last'.data \in {LegacyPayload(LegacyTag(a), <<IntStr(v)>>),
                                               AdminApprovalCallback_pack(a, v)})
               => u \in Users /\ last'.data \in {legacy, structured}
          /\ (u \in Users /\ last'.data = legacy)
               => /\ last'.h = LegacyHandler(a)
                  /\ admin_router_callback(structured) = "handle_admin_action"
                  /\ \E r \in {AdminAction(last'.from,
                                             AdminApprovalCallback_unpack(structured),
                                             EnvSeen(last', subscribers))} :
                        SameOutcome(last', subscribers', r)
          /\ (u \in Users /\ last'.data = structured)
               => /\ last'.h = "handle_admin_action"
                  /\ admin_router_callback(legacy) = LegacyHandler(a)
                  /\ LegacyParses(legacy, LegacyTag(a))
                  /\ \E r \in {AdminAction(last'.from,
                                             [action |-> a,
                                              user_id |-> LegacyUserId(legacy, LegacyTag(a))],
                                             EnvSeen(last', subscribers))} :
                        SameOutcome(last', subscribers', r)]_vars

\* the admin approved a pending monthly record with the legacy payload
C22_Witness ==
    /\ last.h = "handle_legacy_approve_callback"
    /\ last.from = ADMIN_ID
    /\ last.data = LegacyPayload("approve_", <<IntStr(1)>>)
    /\ 1 \in DOMAIN subscribers
    /\ subscribers[1].status = "active"
    /\ subscribers[1].subscription_type = "monthly"
    /\ SentTo(last, 1, "payment_approved")
    /\ SentTo(last, ADMIN_ID, "admin_confirmation_approve")

\* C23: a decline by the admin of an existing record, whose read, status write
\* and transport calls went through, leaves the record expired with its type
\* and dates as they were, and sends the target the decline notification and
\* the admin the confirmation.
C23_DeclineExpiresAndNotifies ==
    [][(/\ DecisionRun(last')
        /\ ActionOf(last') = "decline"
        /\ last'.from = ADMIN_ID
        /\ last'.target \in DOMAIN subscribers
        /\ last'.db # <<>>
        /\ last'.db[1].ok
        /\ \A i \in DOMAIN last'.sent : last'.sent[i].ok)
         => /\ subscribers'[last'.target] =
                  [subscribers[last'.target] EXCEPT !.status = "expired"]
            /\ SentTo(last', last'.target, "payment_declined")
            /\ SentTo(last', ADMIN_ID, "admin_confirmation_decline")]_vars

\* C24: /start is taken by cmd_start in every conversation state; the run
\* leaves the sender's state idle and data cleared; when the sender has a
\* record the table is unchanged; when the sender has none, create_subscriber
\* is called, and the call having gone through the table has one more row, the
\* sender's, pending with no type and no dates (a failed call leaves the table
\* as it was).
C24_StartCreatesOnce ==
    [][/\ \A st \in PaymentFlow \cup {NoState} : user_router_message(st, "/start") = "cmd_start"
       /\ last'.h = "cmd_start"
            => LET u == last'.from
               IN /\ fsmState'[u] = NoState
                  /\ fsmData'[u] = <<>>
                  /\ u \in DOMAIN subscribers => subscribers' = subscribers
                  /\ u \notin DOMAIN subscribers
                       => /\ Len(last'.db) = 1
                          /\ last'.db[1].fn = "create_subscriber"
                          /\ subscribers' = IF last'.db[1].ok
                                            THEN subscribers @@ (u :> NewRow)
                                            ELSE subscribers]_vars

\* a record created by /start on a later day, the sender's context cleared
C24_Witness ==
    /\ last.h = "cmd_start"
    /\ last.db = <<DbCall("create_subscriber", TRUE)>>
    /\ DOMAIN subscribers = {1}
    /\ subscribers[1] = NewRow
    /\ fsmState[1] = NoState
    /\ fsmData[1] = <<>>
    /\ today > 0

\* C25: no step of the user flow, of the admin decisions or of the sweep
\* removes a row: every user who has a record before a step has one after it.
C25_NoRecordRemoved ==
    [][DOMAIN subscribers \subseteq DOMAIN subscribers']_vars

\* a record that went through a receipt, an approval and the sweep's status
\* write is still there
C25_Witness ==
    /\ last.h = "update_expired"
    /\ last.db[1].ok
    /\ last.target \in DOMAIN subscribers
    /\ subscribers[last.target].status = "expired"
    /\ subscribers[last.target].subscription_type = "monthly"

\* C26: a call of get_subscriber for a user without a record returns no row; a
\* call of update_subscriber_status, update_subscription_dates or
\* delete_subscriber for such a user returns FALSE; a call of create_subscriber
\* for a user with a record returns FALSE; each of these calls returns without
\* raising and leaves the table as it was.
C26_AbsenceIsNotAnError ==
    [][LET d == last'
           absent == d.target \notin DOMAIN subscribers
       IN /\ (d.h = "get_subscriber" /\ absent)
               => d.got = <<>> /\ ~d.raised /\ subscribers' = subscribers
          /\ (d.h \in {"update_subscriber_status", "update_subscription_dates",
                       "delete_subscriber"} /\ absent)
               => ~d.db[1].ok /\ ~d.raised /\ subscribers' = subscribers
          /\ (d.h = "create_subscriber" /\ ~absent)
               => ~d.db[1].ok /\ ~d.raised /\ subscribers' = subscribers]_vars

\* update_subscription_dates, meeting no sqlite3.Error, returned FALSE for a
\* user without a record while another user has one
C26_Witness ==
    /\ last.h = "update_subscription_dates"
    /\ last.dbok
    /\ ~last.db[1].ok
    /\ last.target \notin DOMAIN subscribers
    /\ DOMAIN subscribers # {}

\* the sender of the event of run d got a message or a callback answer
Answered(d) ==
    \/ \E i \in DOMAIN d.sent : d.sent[i].to = d.from /\ d.sent[i].ok
    \/ d.alert # ""

\* C27: every handler run on an event from a user, in whatever state and
\* whatever call of the handler fails, sends that user a message that goes
\* through or answers the callback query, and no exception leaves the handler.
C27_EveryEventAnswered ==
    last.from \in Users => (Answered(last) /\ ~last.raised)

\* C28: under every configuration config.py accepts, every record that has
\* both a start_date and an end_date has its end_date after its start_date.
C28_EndAfterStart ==
    \A u \in DOMAIN subscribers :
        (subscribers[u].start_date # NoDate /\ subscribers[u].end_date # NoDate)
          => subscribers[u].end_date > subscribers[u].start_date

\* C29: for each action and each user id, the payload of the decision button
\* passes AdminApprovalCallback's filter and unpacks to that action and that
\* id; a run of handle_admin_action on it is about that user and makes the
\* status write of that action (active for approve, expired for decline).
C29_ButtonRoundTrip ==
    [][last'.h = "handle_admin_action" =>
       \A a \in {"approve", "decline"} : \A u \in Users :
          LET button == DecisionButtons(u)[a]
          IN /\ AdminApprovalCallback_filter(button)
             /\ AdminApprovalCallback_unpack(button) = [action |-> a, user_id |-> u]
             /\ last'.data = button
                  => /\ last'.target = u
                     /\ (last'.db # <<>> /\ last'.db[1].ok)
                          => subscribers'[u].status =
                               (IF a = "approve" THEN "active" ELSE "expired")]_vars

\* the admin pressed the decline button under the receipt of user 1
C29_Witness ==
    /\ last.h = "handle_admin_action"
    /\ last.from = ADMIN_ID
    /\ last.data = DecisionButtons(1).decline
    /\ last.target = 1
    /\ last.db = <<DbCall("update_subscriber_status", TRUE)>>
    /\ subscribers[1].status = "expired"
    /\ subscribers[1].subscription_type = "monthly"

\* C30: the sweep's status write changes a record to expired only when, at the
\* moment of the write, the record is active with an end_date before today.
C30_SweepWritesOnlyPastDue ==
    [][(last'.h = "update_expired" /\ last'.db[1].ok)
         => LET r == subscribers[last'.target]
            IN /\ r.status = "active"
               /\ r.end_date # NoDate
               /\ r.end_date < today]_vars

\* C31: a handler run on an event of a user whose record is active with an
\* end_date not before today (no decision run) leaves that record's status,
\* start_date and end_date as they were.
C31_ActiveKeptUnderOwnEvents ==
    [][(/\ last'.from \in DOMAIN subscribers
        /\ last'.h \notin DecisionHandlers
        /\ subscribers[last'.from].status = "active"
        /\ subscribers[last'.from].end_date # NoDate
        /\ subscribers[last'.from].end_date >= today)
         => LET u == last'.from
            IN /\ subscribers'[u].status = "active"
               /\ subscribers'[u].start_date = subscribers[u].start_date
               /\ subscribers'[u].end_date = subscribers[u].end_date]_vars

\* C32: a handler run that sends the admin a decision request for its sender
\* leaves a record of the sender that is pending and of the plan the sender's
\* conversation data held.
C32_RequestHasPendingRecord ==
    [][SentTo(last', ADMIN_ID, "decision_request")
         => LET u == last'.from
            IN /\ u \in DOMAIN subscribers'
               /\ subscribers'[u].status = "pending"
               /\ subscribers'[u].subscription_type = TariffOf(fsmData[u])]_vars

\* C33: an approve run by the admin on a record with a plan that is expired (no
\* receipt has made it pending since it expired) does not make the record
\* active.
C33_ExpiredNotReapproved ==
    [][(/\ DecisionRun(last')
        /\ ActionOf(last') = "approve"
        /\ last'.from = ADMIN_ID
        /\ last'.target \in DOMAIN subscribers
        /\ subscribers[last'.target].subscription_type \in ALLOWED_SUBSCRIPTION_TYPES
        /\ last'.target \in DOMAIN subscribers
        /\ subscribers[last'.target].status = "expired")
         => subscribers'[last'.target].status # "active"]_vars

----------------------------------------------------------------------------
\* C34: the rows a sweep's query returns are, at the time of the query, active
\* with an end_date that is set and strictly before today; the query changes
\* no record; every notification and every status write of the sweep is for
\* one of the selected users, and changes at most the status of that user's
\* record, so that a record that was pending, expired, without end_date or
\* ending today at the query keeps all its fields and gets no notification.
C34_SweepTouchesOnlySelected ==
    [][/\ last'.h = "check_expired_subscriptions"
            => /\ subscribers' = subscribers
               /\ \A i \in 1..Len(swRun'.selected) :
                     LET u == swRun'.selected[i]
                     IN /\ u \in DOMAIN subscribers
                        /\ subscribers[u].status = "active"
                        /\ subscribers[u].end_date # NoDate
                        /\ subscribers[u].end_date < today
       /\ last'.h \in {"notify_user", "update_expired"}
            => /\ \E i \in 1..Len(swRun.selected) : swRun.selected[i] = last'.target
               /\ \A m \in 1..Len(last'.sent) : last'.sent[m].to = last'.target
               /\ DOMAIN subscribers' = DOMAIN subscribers
               /\ \A u \in DOMAIN subscribers :
                     /\ u # last'.target => subscribers'[u] = subscribers[u]
                     /\ subscribers'[u] = [subscribers[u] EXCEPT
                                              !.status = subscribers'[u].status]]_vars

\* a sweep expired one record and left alone an active one that ends today
C34_Witness ==
    /\ last.h = "update_expired"
    /\ last.target \in DOMAIN subscribers
    /\ subscribers[last.target].status = "expired"
    /\ \E u \in DOMAIN subscribers :
          /\ subscribers[u].status = "active"
          /\ subscribers[u].end_date = today
          /\ \A i \in 1..Len(swRun.selected) : swRun.selected[i] # u

----------------------------------------------------------------------------
\* C35: in waiting_receipt_upload, every input of the user that is neither a
\* photo nor a document with an image MIME type (nor /start nor a cancel
\* action, which the flow sends back to its start) leaves the state at
\* waiting_receipt_upload, leaves the conversation data and every record
\* unchanged, and sends the admin no decision request.
C35_OtherInputKeepsReceiptState ==
    [][(/\ last'.from \in FlowUsers
        /\ fsmState[last'.from] = waiting_receipt_upload
        /\ ~ReceiptAccepted(last')
        /\ last'.h # "cmd_start"
        /\ last'.data \notin CancelPayloads)
         => /\ fsmState'[last'.from] = waiting_receipt_upload
            /\ fsmData' = fsmData
            /\ subscribers' = subscribers
            /\ ~SentTo(last', ADMIN_ID, "decision_request")]_vars

----------------------------------------------------------------------------
\* C36: a plan selection outside waiting_tariff_selection, a confirm-paid
\* outside waiting_payment_confirmation, a payload no handler is registered
\* for, and a message that is no command outside waiting_receipt_upload, from
\* a user in any state of the flow or in none, leave the conversation states,
\* the conversation data and every record unchanged.
C36_UnmatchedInputChangesNothing ==
    [][(/\ last'.from \in FlowUsers
        /\ \/ /\ TariffCallback_filter(last'.data)
              /\ fsmState[last'.from] # waiting_tariff_selection
           \/ /\ last'.data = PaymentConfirmationCallback_pack("confirm")
              /\ fsmState[last'.from] # waiting_payment_confirmation
           \/ last'.data \in {RECEIPT_UPLOAD_CALLBACK} \cup AdminPayloads
           \/ /\ last'.h \in {"handle_unknown_message", "handle_unknown_callback"}
              /\ fsmState[last'.from] # waiting_receipt_upload)
         => /\ fsmState' = fsmState
            /\ fsmData' = fsmData
            /\ subscribers' = subscribers]_vars

\* a plan selection came in waiting_receipt_upload, with a plan already chosen
C36_Witness ==
    /\ last.h = "handle_unknown_callback"
    /\ last.from \in FlowUsers
    /\ TariffCallback_filter(last.data)
    /\ fsmState[last.from] = waiting_receipt_upload
    /\ fsmData[last.from] # <<>>

----------------------------------------------------------------------------
\* C37: cb_buy_access, cb_tariff_selected and cb_payment_confirmed leave every
\* record as it is, and whenever a user is in waiting_payment_confirmation or
\* waiting_receipt_upload the conversation data holds a tariff that is monthly
\* or lifetime together with the configured price of that tariff.
C37_PlanOnlyInConversationData ==
    [][/\ last'.h \in {"cb_buy_access", "cb_tariff_selected", "cb_payment_confirmed"}
            => subscribers' = subscribers
       /\ \A u \in Users :
             fsmState'[u] \in {waiting_payment_confirmation, waiting_receipt_upload}
                => /\ fsmData'[u] # <<>>
                   /\ TariffOf(fsmData'[u]) \in ALLOWED_SUBSCRIPTION_TYPES
                   /\ fsmData'[u][1].price =
                         IF TariffOf(fsmData'[u]) = "monthly"
                         THEN TARIFF_MONTHLY ELSE TARIFF_LIFETIME]_vars

\* the user confirmed the payment of the lifetime plan, and the record holds
\* no plan
C37_Witness ==
    /\ last.h = "cb_payment_confirmed"
    /\ fsmState[last.from] = waiting_receipt_upload
    /\ TariffOf(fsmData[last.from]) = "lifetime"
    /\ last.from \in DOMAIN subscribers
    /\ subscribers[last.from].subscription_type = NoType

----------------------------------------------------------------------------
(* notify_user alone, called for any user on any day against a transport that
   has an answer ready for one send more than the budget allows *)

NotifyCall ==
    /\ Ready
    /\ \E user_id \in Users, outcomes \in [1..RETRIES + 1 -> TransportOutcomes] :
          LET r == notify_user(outcomes)
          IN /\ swSends' = r.sends
             /\ swSent' = r.sent
             /\ last' = NotifyDid(user_id, outcomes, r)
    /\ UNCHANGED <<config, subscribers, fsmState, fsmData, today, swPc, swQueue, swRun>>

NextNotify ==
    \/ Tick
    \/ NotifyCall
    \/ Return

SpecNotify == Init /\ [][NextNotify]_vars

\* C38: whatever the transport answers to the successive sends, a call of
\* notify_user returns after at least one and at most RETRIES sends, with no
\* more sleeps than sends; when every send is rate-limited it makes exactly
\* RETRIES sends and returns False.
C38_NotifyBounded ==
    NotifyRun(last)
        => /\ Len(last.sent) \in 1..RETRIES
           /\ Len(last.waits) <= Len(last.sent)
           /\ (\A i \in DOMAIN last.data : last.data[i] = <<"retry_after">>)
                => Len(last.sent) = RETRIES /\ ~swSent

\* a call whose every send was rate-limited has returned
C38_Witness ==
    /\ NotifyRun(last)
    /\ Len(last.sent) = RETRIES
    /\ \A i \in DOMAIN last.data : last.data[i] = <<"retry_after">>
    /\ Len(last.waits) = RETRIES
    /\ ~swSent

----------------------------------------------------------------------------
(* The payment flow of several users at once: the updates of every user go
   through the Dispatcher of main.py, in any order *)

FlowMessage ==
    /\ Yielded
    /\ \E u \in Users, kind \in MessageKinds :
          LET h == user_router_message(fsmState[u], kind)
          IN \E e \in Envs(NDb(h), NTx(h)) : RunMessage(h, u, kind, e)

FlowCallback ==
    /\ Yielded
    /\ \E u \in Users, data \in Payloads :
          LET h == dispatcher_callback(fsmState[u], data)
          IN \E e \in Envs(NDb(h), NTx(h)) : RunCallback(h, u, data, e)

NextFlow ==
    \/ FlowMessage
    \/ FlowCallback
    \/ Return

SpecFlow == Init /\ [][NextFlow]_vars

\* C39: a handler run on an update from one user leaves the record (its
\* presence and all its fields), the conversation state and the conversation
\* data of every other user as they were.
C39_OtherUsersUntouched ==
    [][\A b \in Users :
          (last'.from \in Users /\ b # last'.from)
             => /\ (b \in DOMAIN subscribers') = (b \in DOMAIN subscribers)
                /\ b \in DOMAIN subscribers => subscribers'[b] = subscribers[b]
                /\ fsmState'[b] = fsmState[b]
                /\ fsmData'[b] = fsmData[b]]_vars

\* a user's receipt was accepted and written while another user, whose record
\* has no plan, waits to upload a receipt for the lifetime plan
C39_Witness ==
    /\ ReceiptAccepted(last)
    /\ last.from \in DOMAIN subscribers
    /\ subscribers[last.from].subscription_type = "monthly"
    /\ \E b \in DOMAIN subscribers \ {last.from} :
          /\ subscribers[b].subscription_type = NoType
          /\ fsmState[b] = waiting_receipt_upload
          /\ TariffOf(fsmData[b]) = "lifetime"

----------------------------------------------------------------------------
(* The scheduler task over the ten years that follow an approval: the calendar
   moves by a day, or at once by the term the approve branch gives a lifetime
   plan *)

Elapse ==
    /\ Ready
    /\ today <= MaxDay
    /\ today' = today + LIFETIME_DAYS
    /\ last' = Did("tick", 0, 0, <<>>, <<>>, <<>>, "", FALSE)
    /\ swRun' = Disturbed
    /\ UNCHANGED <<config, subscribers, fsmState, fsmData, SweepVars>>

NextDecade ==
    \/ Tick
    \/ Elapse
    \/ Sweep
    \/ Return

SpecDecade == InitSweep /\ [][NextDecade]_vars

\* C40: the query of a sweep never returns the record of an approved lifetime
\* subscription, and no status write of the sweep is made on one, however
\* many days have passed since the approval.
C40_LifetimeNeverSwept ==
    [][/\ last'.h = "check_expired_subscriptions"
            => \A i \in 1..Len(swQueue') :
                  subscribers[swQueue'[i]].subscription_type # "lifetime"
       /\ last'.h = "update_expired"
            => \/ last'.target \notin DOMAIN subscribers
               \/ subscribers[last'.target].subscription_type # "lifetime"]_vars

=============================================================================
